---- MODULE Spec2Model ----
(***************************************************************************)
(* A model of the Bignum class (src/bignum.cpp) and of the encrypt branch  *)
(* of main (src/main.cpp).                                                 *)
(*                                                                         *)
(* A Bignum is its bignum_vector: a sequence of ints, most significant     *)
(* digit first.  A std::string is the sequence of its character codes      *)
(* (unsigned char values).  Positions are 1-based here and 0-based in the  *)
(* source.                                                                 *)
(***************************************************************************)
EXTENDS Integers, Sequences, FiniteSets, TLC

(***************************************************************************)
(* With(value, Body) is Body(value) with the value computed once, before   *)
(* Body: TLC computes a LET definition or an operator argument each time   *)
(* it is used, and only on demand, which for digit loops nested in digit   *)
(* loops costs time and evaluation stack.  The operands of every operator  *)
(* and the state handed from one part of a loop to the next are bound with *)
(* With or With2.                                                          *)
(*                                                                         *)
(* A loop over the digits of a number is written as a step (the loop body) *)
(* and a loop operator that applies the step at every position of a range, *)
(* in the source's order; the loop operator splits its range in two, which *)
(* keeps the evaluation stack shallow for numbers of 150 and more digits.  *)
(***************************************************************************)
With(value, Body(_)) == CHOOSE r \in {Body(v) : v \in {value}} : TRUE

With2(value1, value2, Body(_, _)) ==
    CHOOSE r \in {Body(v1, v2) : v1 \in {value1}, v2 \in {value2}} : TRUE

(***************************************************************************)
(* Bignum: construction, normalisation, comparison.                        *)
(***************************************************************************)

\* Bignum::Bignum(const std::string &): one element per character, ch - '0',
\* whatever the character is; remove_excess is not called.
Bignum(string_num) ==
    With(string_num, LAMBDA s : [i \in 1..Len(s) |-> s[i] - 48])

\* Bignum::to_string: std::to_string of every element, concatenated.  Every
\* element the model converts is in 0..9, one character each.
to_string(bignum) ==
    With(bignum, LAMBDA v : [i \in 1..Len(v) |-> v[i] + 48])

\* The number of leading elements of v that are zero, at most `most`.
LeadingZeros(v, most) ==
    CHOOSE k \in 0..most :
        /\ k = most \/ v[k + 1] # 0
        /\ \A j \in 1..k : v[j] = 0

\* Bignum::remove_excess: erase leading zeros while more than one element is
\* left.
remove_excess(bignum_vector) ==
    With(bignum_vector, LAMBDA v :
        IF Len(v) <= 1 THEN v
        ELSE SubSeq(v, LeadingZeros(v, Len(v) - 1) + 1, Len(v)))

\* The while loop of lines 160-161 of operator/ on rem: erase every leading
\* zero, down to the empty vector.
StripZeros(rem) ==
    With(rem, LAMBDA v : SubSeq(v, LeadingZeros(v, Len(v)) + 1, Len(v)))

\* std::lexicographical_compare: the first position where the ranges differ
\* decides; a proper prefix is less.
lexicographical_compare(x, y) ==
    LET n == IF Len(x) < Len(y) THEN Len(x) ELSE Len(y)
        same == CHOOSE k \in 0..n :
                    /\ k = n \/ x[k + 1] # y[k + 1]
                    /\ \A j \in 1..k : x[j] = y[j]
    IN  IF same = n THEN Len(x) < Len(y) ELSE x[same + 1] < y[same + 1]

\* Bignum::operator<: by size when the sizes differ, else lexicographically.
Less(x, y) ==
    IF Len(x) # Len(y) THEN Len(x) < Len(y)
    ELSE lexicographical_compare(x, y)

\* Bignum::operator>
Greater(x, y) == Less(y, x)

\* Bignum::operator==: equality of the vectors.
Equal(x, y) == x = y

(***************************************************************************)
(* operator-                                                               *)
(***************************************************************************)

\* The body of the loop of operator- at position k of the difference; i and j
\* are the positions of x and y that run down with k.
SubtractStep(x, y, st, k) ==
    LET max_size == Len(st.difference)
        i == k - (max_size - Len(x))
        j == k - (max_size - Len(y))
        first_dig == IF i >= 1 THEN x[i] ELSE 0
        second_dig == IF j >= 1 THEN y[j] ELSE 0
        curr_diff == first_dig - second_dig - st.borrow
    IN  IF curr_diff < 0
        THEN [borrow |-> 1, difference |-> [st.difference EXCEPT ![k] = curr_diff + 10]]
        ELSE [borrow |-> 0, difference |-> [st.difference EXCEPT ![k] = curr_diff]]

RECURSIVE SubtractLoop(_, _, _, _, _)
\* The loop of operator-: k = hi, hi - 1, ..., lo.
SubtractLoop(x, y, st, lo, hi) ==
    IF lo > hi THEN st
    ELSE IF lo = hi THEN SubtractStep(x, y, st, lo)
    ELSE With(SubtractLoop(x, y, st, ((lo + hi) \div 2) + 1, hi),
              LAMBDA upper : SubtractLoop(x, y, upper, lo, (lo + hi) \div 2))

\* Bignum::operator-
Subtract(this, other) ==
    With2(this, other, LAMBDA x, y :
        LET max_size == IF Len(x) > Len(y) THEN Len(x) ELSE Len(y)
            start == [borrow |-> 0, difference |-> [k \in 1..max_size |-> 0]]
        IN  remove_excess(SubtractLoop(x, y, start, 1, max_size).difference))

(***************************************************************************)
(* operator*                                                               *)
(***************************************************************************)

\* MultiplyInnerStep with the digit already in the buffer left out of the sum.
MultiplyInnerStepNoAccumulate(x, y, i, st, j) ==
    LET curr_product == x[i] * y[j] + st.carry_over
    IN  [product |-> [st.product EXCEPT ![i + j] = curr_product % 10],
         carry_over |-> curr_product \div 10]

\* The body of the inner loop of operator*: digit x[i] against y[j].
MultiplyInnerStep(x, y, i, st, j) ==
    LET curr_product == x[i] * y[j] + st.product[i + j] + st.carry_over
    IN  [product |-> [st.product EXCEPT ![i + j] = curr_product % 10],
         carry_over |-> curr_product \div 10]

RECURSIVE MultiplyInner(_, _, _, _, _, _)
\* The inner loop of operator*: j = hi, hi - 1, ..., lo.
MultiplyInner(x, y, i, st, lo, hi) ==
    IF lo > hi THEN st
    ELSE IF lo = hi THEN MultiplyInnerStep(x, y, i, st, lo)
    ELSE With(MultiplyInner(x, y, i, st, ((lo + hi) \div 2) + 1, hi),
              LAMBDA upper : MultiplyInner(x, y, i, upper, lo, (lo + hi) \div 2))

\* The body of the outer loop of operator*: a zero digit of x is skipped;
\* otherwise the row is accumulated and its last carry added at position i.
MultiplyOuterStep(x, y, product, i) ==
    IF x[i] = 0 THEN product
    ELSE With(MultiplyInner(x, y, i, [product |-> product, carry_over |-> 0], 1, Len(y)),
              LAMBDA st : [st.product EXCEPT ![i] = st.product[i] + st.carry_over])

RECURSIVE MultiplyOuter(_, _, _, _, _)
\* The outer loop of operator*: i = hi, hi - 1, ..., lo.
MultiplyOuter(x, y, product, lo, hi) ==
    IF lo > hi THEN product
    ELSE IF lo = hi THEN MultiplyOuterStep(x, y, product, lo)
    ELSE With(MultiplyOuter(x, y, product, ((lo + hi) \div 2) + 1, hi),
              LAMBDA upper : MultiplyOuter(x, y, upper, lo, (lo + hi) \div 2))

\* Bignum::operator*
Multiply(this, other) ==
    With2(this, other, LAMBDA x, y :
        remove_excess(MultiplyOuter(x, y, [k \in 1..(Len(x) + Len(y)) |-> 0],
                                    1, Len(x))))

(***************************************************************************)
(* operator/ and operator%                                                 *)
(***************************************************************************)

RECURSIVE DivideWhileGreater(_, _, _)
\* DivideWhile with the test rem > other in place of !(rem < other).
DivideWhileGreater(rem, other, curr_div) ==
    With(rem, LAMBDA r :
        IF ~Greater(r, other) THEN [rem |-> r, curr_div |-> curr_div]
        ELSE DivideWhileGreater(Subtract(r, other), other, curr_div + 1))

RECURSIVE DivideWhile(_, _, _)
\* The subtraction loop of lines 164-168: subtract other while !(rem < other),
\* counting.  It does not end when other is zero and rem is not empty.
DivideWhile(rem, other, curr_div) ==
    With(rem, LAMBDA r :
        IF Less(r, other) THEN [rem |-> r, curr_div |-> curr_div]
        ELSE DivideWhile(Subtract(r, other), other, curr_div + 1))

\* The body of the for loop of operator/ at digit i of the dividend.
DivideStep(x, other, st, i) ==
    With(DivideWhile(StripZeros(Append(st.rem, x[i])), other, 0),
         LAMBDA r : [rem |-> r.rem, quo |-> Append(st.quo, r.curr_div)])

RECURSIVE DivideLoop(_, _, _, _, _)
\* The for loop of operator/: i = lo, lo + 1, ..., hi.
DivideLoop(x, other, st, lo, hi) ==
    IF lo > hi THEN st
    ELSE IF lo = hi THEN DivideStep(x, other, st, lo)
    ELSE With(DivideLoop(x, other, st, lo, (lo + hi) \div 2),
              LAMBDA lower : DivideLoop(x, other, lower, ((lo + hi) \div 2) + 1, hi))

\* Bignum::operator/: quo starts as "0", rem as the empty vector.
Divide(this, other) ==
    With2(this, other, LAMBDA x, y :
        remove_excess(DivideLoop(x, y, [rem |-> << >>, quo |-> <<0>>], 1, Len(x)).quo))

\* Bignum::operator%
Modulo(this, other) ==
    With2(this, other, LAMBDA x, y : Subtract(x, Multiply(Divide(x, y), y)))

(***************************************************************************)
(* mod_exponent, as the loop runs when each iteration's two tasks are      *)
(* taken one after the other.  The interleavings of the tasks are the      *)
(* actions of SpecModExp below.                                            *)
(***************************************************************************)
zero == <<0>>
two == <<2>>

\* The multiply task of one iteration (the lambda of lines 208-212).
MultiplyTask(mod_exp, curr_base, modulus) ==
    Modulo(Multiply(mod_exp, curr_base), modulus)

\* The squaring task of one iteration (the lambda of lines 215-216).
SquareTask(curr_base, modulus) == Modulo(Multiply(curr_base, curr_base), modulus)

\* The test of line 206: the last digit of the exponent is odd.
IsOdd(curr_exponent) == curr_exponent[Len(curr_exponent)] % 2 # 0

\* The halving of line 222.
Halve(curr_exponent) == Divide(curr_exponent, two)

RECURSIVE ModExponentLoop(_, _, _, _)
\* The while loop of mod_exponent.
ModExponentLoop(mod_exp, curr_base, curr_exponent, modulus) ==
    IF Equal(curr_exponent, zero) THEN mod_exp
    ELSE ModExponentLoop(
             IF IsOdd(curr_exponent) THEN MultiplyTask(mod_exp, curr_base, modulus)
             ELSE mod_exp,
             SquareTask(curr_base, modulus),
             Halve(curr_exponent),
             modulus)

\* Bignum::mod_exponent
mod_exponent(base, exponent, modulus) ==
    remove_excess(ModExponentLoop(<<1>>, Modulo(base, modulus), exponent, modulus))

(***************************************************************************)
(* Text to number and back.                                                *)
(***************************************************************************)

\* std::setw(3) << std::setfill('0') << int of an unsigned char (0..255): the
\* three decimal digits of the code, as characters.
ZeroFilled3(code) ==
    <<48 + (code \div 100), 48 + ((code \div 10) % 10), 48 + (code % 10)>>

\* Bignum::string_to_bignum: three digits per character, handed to the
\* constructor as they are.
string_to_bignum(str) ==
    Bignum([p \in 1..(3 * Len(str)) |->
               ZeroFilled3(str[((p - 1) \div 3) + 1])[((p - 1) % 3) + 1]])

\* Bignum::bignum_to_string: the digit string, zero-filled on the left to a
\* multiple of 3, read in groups of 3; each group's value (std::stoi) is cast
\* to a char, which keeps its low 8 bits.
bignum_to_string(bignum) ==
    LET digits == to_string(bignum)
        fill == IF Len(digits) % 3 # 0 THEN 3 - (Len(digits) % 3) ELSE 0
        to_convert == [p \in 1..(Len(digits) + fill) |->
                          IF p <= fill THEN 48 ELSE digits[p - fill]]
        stoi(i) == 100 * (to_convert[i] - 48) + 10 * (to_convert[i + 1] - 48)
                   + (to_convert[i + 2] - 48)
    IN  [g \in 1..(Len(to_convert) \div 3) |-> stoi(3 * g - 2) % 256]

(***************************************************************************)
(* Framing.                                                                *)
(***************************************************************************)
MAX_CHARS_PER_CHUNK == 96

RECURSIVE DecimalText(_)
\* The decimal text of a non-negative int, as operator<< writes it.
DecimalText(n) ==
    IF n < 10 THEN <<48 + n>>
    ELSE Append(DecimalText(n \div 10), 48 + (n % 10))

\* std::setw(3) << std::setfill(' ') << line_num: the decimal text, filled
\* with spaces on the left up to 3 characters; a longer text is not cut.
SpaceFilled3(line_num) ==
    LET text == DecimalText(line_num)
    IN  IF Len(text) >= 3 THEN text
        ELSE [p \in 1..3 |-> IF p <= 3 - Len(text) THEN 32
                             ELSE text[p - (3 - Len(text))]]

\* Bignum::padding throws std::length_error: padding_check is a size_t, so
\* padding_check - 3 wraps to a count no string can hold as soon as the marker
\* and the input are longer than 99 together.
padding_throws(input, line_num) ==
    Len(SpaceFilled3(line_num)) + Len(input) > 102 - 3

\* padding with the room for the trailing marker not taken off the fill.
paddingWithoutReserve(input, line_num) ==
    LET marker == SpaceFilled3(line_num)
        result == marker \o input
        padding_check == 102 - Len(result)
    IN  result \o [p \in 1..padding_check |-> 32] \o marker

\* Bignum::padding, when it returns.
padding(input, line_num) ==
    LET marker == SpaceFilled3(line_num)
        result == marker \o input
        padding_check == 102 - Len(result)
    IN  result \o [p \in 1..(padding_check - 3) |-> 32] \o marker

\* Lines 311-312 of large_encrypt: a longer line is cut to its first
\* MAX_CHARS_PER_CHUNK characters.
Truncate(line) ==
    IF Len(line) > MAX_CHARS_PER_CHUNK THEN SubSeq(line, 1, MAX_CHARS_PER_CHUNK)
    ELSE line

\* padded_line.substr(0, 51) and padded_line.substr(51) of lines 318-319.
FirstHalf(padded_line) ==
    SubSeq(padded_line, 1, IF Len(padded_line) < 51 THEN Len(padded_line) ELSE 51)
SecondHalf(padded_line) == SubSeq(padded_line, 52, Len(padded_line))

\* The task of large_encrypt for one padded line (lines 316-320): the pair of
\* digit strings.
EncryptTask(padded_line, public_exp, public_mod) ==
    <<to_string(mod_exponent(string_to_bignum(FirstHalf(padded_line)),
                             public_exp, public_mod)),
      to_string(mod_exponent(string_to_bignum(SecondHalf(padded_line)),
                             public_exp, public_mod))>>

\* One of the two threads of large_decrypt (lines 340-344).
DecryptThread(digits, priv_exp, public_mod) ==
    mod_exponent(Bignum(digits), priv_exp, public_mod)

\* decrypted_str.substr(3, decrypted_str.length() - 6) of line 354, for a
\* string of at least 6 characters.
StripMarkers(decrypted_str) == SubSeq(decrypted_str, 4, Len(decrypted_str) - 3)

\* The while loop of lines 356-359: pop trailing spaces.
PopSpaces(decrypted_str) ==
    LET n == Len(decrypted_str)
        kept == CHOOSE k \in 0..n :
                    /\ k = 0 \/ decrypted_str[k] # 32
                    /\ \A j \in (k + 1)..n : decrypted_str[j] = 32
    IN  SubSeq(decrypted_str, 1, kept)

\* The decoding thread of large_decrypt (lines 351-359).
DecodeThread(first_decrypted, second_decrypted) ==
    PopSpaces(StripMarkers(bignum_to_string(first_decrypted)
                           \o bignum_to_string(second_decrypted)))

(***************************************************************************)
(* Reference arithmetic on TLA+ integers, used to state the claims.        *)
(***************************************************************************)

\* The Bignum of a non-negative integer: the constructor on its decimal text.
Numeral(n) == Bignum(DecimalText(n))

RECURSIVE Value(_)
\* The integer a digit vector denotes.
Value(v) ==
    IF Len(v) = 0 THEN 0
    ELSE 10 * Value(SubSeq(v, 1, Len(v) - 1)) + v[Len(v)]

\* A DecimalBigInt: digits 0..9, no leading zero unless the length is 1.
WellFormed(v) ==
    /\ Len(v) >= 1
    /\ \A i \in 1..Len(v) : v[i] \in 0..9
    /\ Len(v) > 1 => v[1] # 0

(***************************************************************************)
(* State.  One record per part of the program that is exercised:           *)
(*   arith     one call of a Bignum operator or constructor                *)
(*   division  operator/ and operator% step by step                        *)
(*   modexp    mod_exponent: its loop and the two tasks of an iteration    *)
(*   protocol  one line through large_encrypt and large_decrypt            *)
(*   program   main's encrypt branch and large_encrypt on a whole text     *)
(***************************************************************************)
VARIABLES arith, division, modexp, protocol, program

vars == <<arith, division, modexp, protocol, program>>

Unused == [pc |-> "unused"]

(***************************************************************************)
(* SpecArith: single calls of the constructor, the encoder and the         *)
(* operators on bounded operands.                                          *)
(***************************************************************************)
MaxOperand == 12
MaxDigits == 2
MaxTextLen == 2

\* Integers with carries, borrows and several digits.
SampleOperands == {25, 99, 100, 128, 999, 1000, 4185, 9999, 65535}

Operands == {Numeral(n) : n \in (0..MaxOperand) \cup SampleOperands}

\* Decimal-digit strings, leading zeros included.
RECURSIVE StringsOver(_, _)
StringsOver(alphabet, len) ==
    IF len = 0 THEN {<< >>}
    ELSE {Append(s, ch) : s \in StringsOver(alphabet, len - 1), ch \in alphabet}

DigitStrings == UNION {StringsOver(48..57, len) : len \in 1..MaxDigits}

\* Printable ASCII samples: space, a two-digit code, codes of three digits.
SampleChars == {32, 65, 100, 126}

Texts == UNION {StringsOver(SampleChars, len) : len \in 1..MaxTextLen}

\* Dividends: the operands, and encoded texts as mod_exponent is given them
\* for its base, most of them with a leading zero.
Dividends == Operands \cup {string_to_bignum(str) : str \in Texts}

InitArith ==
    /\ arith = [pc |-> "start"]
    /\ division = Unused
    /\ modexp = Unused
    /\ protocol = Unused
    /\ program = Unused

Others_arith == UNCHANGED <<division, modexp, protocol, program>>

\* Bignum(string_num)
Construct ==
    /\ arith.pc = "start"
    /\ \E string_num \in DigitStrings :
           arith' = [pc |-> "constructed", input |-> string_num,
                     result |-> Bignum(string_num)]
    /\ Others_arith

\* string_to_bignum(str)
Encode ==
    /\ arith.pc = "start"
    /\ \E str \in Texts :
           arith' = [pc |-> "encoded", input |-> str,
                     result |-> string_to_bignum(str)]
    /\ Others_arith

\* a - b, for a >= b
CallSubtract ==
    /\ arith.pc = "start"
    /\ \E a \in Operands, b \in Operands :
           /\ ~Less(a, b)
           /\ arith' = [pc |-> "subtracted", a |-> a, b |-> b,
                        result |-> Subtract(a, b)]
    /\ Others_arith

\* a * b, b * a, (a * b) * c and a * (b * c)
CallMultiply ==
    /\ arith.pc = "start"
    /\ \E a \in Operands, b \in Operands, c \in Operands :
           arith' = [pc |-> "multiplied", a |-> a, b |-> b, c |-> c,
                     result |-> Multiply(a, b),
                     ba |-> Multiply(b, a),
                     ab_c |-> Multiply(Multiply(a, b), c),
                     a_bc |-> Multiply(a, Multiply(b, c))]
    /\ Others_arith

\* a / b, for b # 0
CallDivide ==
    /\ arith.pc = "start"
    /\ \E a \in Dividends, b \in Operands :
           /\ b # zero
           /\ arith' = [pc |-> "divided", a |-> a, b |-> b,
                        result |-> Divide(a, b)]
    /\ Others_arith

\* a % b, for b # 0
CallModulo ==
    /\ arith.pc = "start"
    /\ \E a \in Dividends, b \in Operands :
           /\ b # zero
           /\ arith' = [pc |-> "reduced", a |-> a, b |-> b,
                        result |-> Modulo(a, b)]
    /\ Others_arith

\* mod_exponent(a, b, c), for c # 0
CallModExponent ==
    /\ arith.pc = "start"
    /\ \E a \in Operands, b \in Operands, c \in Operands :
           /\ c # zero
           /\ Value(b) <= MaxOperand
           /\ arith' = [pc |-> "exponentiated", a |-> a, b |-> b, c |-> c,
                        result |-> mod_exponent(a, b, c)]
    /\ Others_arith

NextArith ==
    \/ Construct
    \/ Encode
    \/ CallSubtract
    \/ CallMultiply
    \/ CallDivide
    \/ CallModulo
    \/ CallModExponent

SpecArith == InitArith /\ [][NextArith]_vars

(***************************************************************************)
(* C3: for a >= 0 and b >= 1, a / b is the digit sequence of floor(a / b)  *)
(* and a % b the digit sequence of a - floor(a / b) * b, which is below b; *)
(* so a / a = 1 for a # 0 and a % a = 0.  The divisors are in canonical    *)
(* form; the dividends are also taken as the text encoder leaves them.     *)
(***************************************************************************)
DivideModuloCorrect ==
    /\ arith.pc = "divided" =>
           /\ arith.result = Numeral(Value(arith.a) \div Value(arith.b))
           /\ arith.a = arith.b => arith.result = <<1>>
    /\ arith.pc = "reduced" =>
           /\ arith.result = Numeral(Value(arith.a)
                                 - (Value(arith.a) \div Value(arith.b)) * Value(arith.b))
           /\ Value(arith.result) < Value(arith.b)
           /\ arith.a = arith.b => arith.result = <<0>>

\* 4185 / 12 = 348, a quotient of several digits with a remainder left over.
DivideModuloWitness ==
    /\ arith.pc = "divided"
    /\ arith.a = <<4, 1, 8, 5>>
    /\ arith.b = <<1, 2>>
    /\ arith.result = <<3, 4, 8>>

(***************************************************************************)
(* C4: every value, constructed from a digit string, produced by the text  *)
(* encoder or returned by an operator, is a sequence of digits 0..9 with   *)
(* no leading zero unless its length is 1.                                 *)
(***************************************************************************)
EveryValueWellFormed == arith.pc # "start" => WellFormed(arith.result)

(***************************************************************************)
(* C5: a * b = b * a and (a * b) * c = a * (b * c) as digit sequences, and *)
(* the product is at most len(a) + len(b) digits long.                     *)
(***************************************************************************)
MultiplyLaws ==
    arith.pc = "multiplied" =>
        /\ arith.result = arith.ba
        /\ arith.ab_c = arith.a_bc
        /\ Len(arith.result) <= Len(arith.a) + Len(arith.b)

\* 99 * 9999 * 25: carries run through every row.
MultiplyLawsWitness ==
    /\ arith.pc = "multiplied"
    /\ arith.a = <<9, 9>>
    /\ arith.b = <<9, 9, 9, 9>>
    /\ arith.c = <<2, 5>>
    /\ arith.result = <<9, 8, 9, 9, 0, 1>>
    /\ arith.ab_c = <<2, 4, 7, 4, 7, 5, 2, 5>>

(***************************************************************************)
(* SpecDivide: operator/ and operator% one loop step at a time, for every  *)
(* divisor, zero included.  MaxSubtractions caps curr_div, which the loop  *)
(* of line 164 lets grow without bound when the divisor is zero.           *)
(***************************************************************************)
MaxSubtractions == 12

InitDivide ==
    /\ division = [pc |-> "start"]
    /\ arith = Unused
    /\ modexp = Unused
    /\ protocol = Unused
    /\ program = Unused

Others_division == UNCHANGED <<arith, modexp, protocol, program>>

\* A call of operator/ (op = "divide") or of operator% (op = "modulo", which
\* calls operator/ first): quo is "0", rem is empty.
DivideEnter ==
    /\ division.pc = "start"
    /\ \E op \in {"divide", "modulo"}, x \in Operands, other \in Operands :
           division' = [pc |-> "for", op |-> op, x |-> x, other |-> other, i |-> 1,
                        rem |-> << >>, quo |-> <<0>>, curr_div |-> 0,
                        result |-> << >>]
    /\ Others_division

\* Lines 159-163: push the next digit, erase the leading zeros of rem.
DividePushDigit ==
    /\ division.pc = "for"
    /\ division.i <= Len(division.x)
    /\ division' = [division EXCEPT
                        !.rem = StripZeros(Append(division.rem, division.x[division.i])),
                        !.curr_div = 0,
                        !.pc = "while"]
    /\ Others_division

\* Lines 164-168: one turn of the subtraction loop.
DivideSubtractOnce ==
    /\ division.pc = "while"
    /\ ~Less(division.rem, division.other)
    /\ division.curr_div < MaxSubtractions
    /\ division' = [division EXCEPT
                        !.rem = Subtract(division.rem, division.other),
                        !.curr_div = division.curr_div + 1]
    /\ Others_division

\* Line 170: the loop of line 164 has ended; the count is the next digit.
DivideAppendDigit ==
    /\ division.pc = "while"
    /\ Less(division.rem, division.other)
    /\ division' = [division EXCEPT
                        !.quo = Append(division.quo, division.curr_div),
                        !.i = division.i + 1,
                        !.pc = "for"]
    /\ Others_division

\* Lines 173-174, and line 182 for operator%: a value is returned.  No path
\* of either operator throws.
DivideReturn ==
    /\ division.pc = "for"
    /\ division.i > Len(division.x)
    /\ LET quotient == remove_excess(division.quo)
       IN  division' = [division EXCEPT
                            !.pc = "returned",
                            !.result = IF division.op = "divide" THEN quotient
                                       ELSE Subtract(division.x,
                                                     Multiply(quotient, division.other))]
    /\ Others_division

NextDivide ==
    \/ DivideEnter
    \/ DividePushDigit
    \/ DivideSubtractOnce
    \/ DivideAppendDigit
    \/ DivideReturn

SpecDivide == InitDivide /\ [][NextDivide]_vars

(***************************************************************************)
(* C6: divide(a, 0) and modulo(a, 0) end in a DivisionByZero error: they   *)
(* never return a quotient or remainder, and never loop forever (a digit   *)
(* of the quotient takes at most 9 subtractions).                          *)
(***************************************************************************)
DivisionByZeroIsAnError ==
    (division.pc \in {"for", "while", "returned"} /\ division.other = zero) =>
        /\ division.pc # "returned"
        /\ division.curr_div <= 9

\* 5 / 0: the subtraction loop is still running after MaxSubtractions turns,
\* rem unchanged.
DivisionByZeroLoops ==
    /\ division.pc = "while"
    /\ division.other = zero
    /\ division.x = <<5>>
    /\ division.rem = <<5>>
    /\ division.curr_div = MaxSubtractions

\* The step machine agrees with the operators Divide and Modulo.
DivideStepsAgree ==
    (division.pc = "returned" /\ division.other # zero) =>
        division.result = IF division.op = "divide"
                          THEN Divide(division.x, division.other)
                          ELSE Modulo(division.x, division.other)

(***************************************************************************)
(* SpecLine: one line through large_encrypt and then, as its two           *)
(* ciphertext strings, through large_decrypt.                              *)
(*                                                                         *)
(* The key strings are placeholders in the source ("TO_FILL"), filled in   *)
(* by whoever builds the program.  The model fills them with a valid key:  *)
(* the modulus 10^153 is larger than every encoded half-block (at most 153 *)
(* digits) and the exponents 1 and 1 are inverse of each other.            *)
(***************************************************************************)
rsa_n == [p \in 1..154 |-> IF p = 1 THEN 49 ELSE 48]
rsa_e == <<49>>
rsa_d == <<49>>

public_mod == Bignum(rsa_n)
public_exp == Bignum(rsa_e)
priv_exp == Bignum(rsa_d)

MaxLineNum == 1000

\* Line numbers of one, two, three and four digits.
LineNums == {1, 12, 345, 999, MaxLineNum}

\* Lengths around the empty line, the end of the first half and the limit of
\* MAX_CHARS_PER_CHUNK.
LineLengths == {0, 1, 49, 95, 96, 97}

\* A line of printable ASCII of the given length: no space in it ("text"), a
\* space as its last character ("trailing") or its first ("leading"), or
\* nothing but spaces ("blank").
SampleLine(len, shape) ==
    [p \in 1..len |->
        IF \/ shape = "blank"
           \/ shape = "trailing" /\ p = len
           \/ shape = "leading" /\ p = 1
        THEN 32
        ELSE 33 + ((29 * p + len) % 94)]

Lines ==
    {SampleLine(len, shape) :
        len \in LineLengths, shape \in {"text", "trailing", "leading", "blank"}}

InitLine ==
    /\ protocol \in {[pc |-> "getline", line |-> l, line_num |-> n,
                      padded_line |-> << >>, encrypted |-> << >>,
                      first_thread |-> "idle", second_thread |-> "idle",
                      first_decrypted |-> << >>, second_decrypted |-> << >>,
                      decrypted_str |-> << >>] :
                        l \in Lines, n \in LineNums}
    /\ arith = Unused
    /\ division = Unused
    /\ modexp = Unused
    /\ program = Unused

Others_protocol == UNCHANGED <<arith, division, modexp, program>>

\* Lines 311-314 of large_encrypt: the line is cut and framed.
FrameLine ==
    /\ protocol.pc = "getline"
    /\ ~padding_throws(Truncate(protocol.line), protocol.line_num)
    /\ protocol' = [protocol EXCEPT
                       !.padded_line = padding(Truncate(protocol.line),
                                               protocol.line_num),
                       !.pc = "framed"]
    /\ Others_protocol

\* Line 314, when padding throws: large_encrypt ends with the exception.
FrameThrows ==
    /\ protocol.pc = "getline"
    /\ padding_throws(Truncate(protocol.line), protocol.line_num)
    /\ protocol' = [protocol EXCEPT !.pc = "length_error"]
    /\ Others_protocol

\* Lines 316-320 and 325-326: the line's task runs, and its pair is collected.
EncryptLine ==
    /\ protocol.pc = "framed"
    /\ protocol' = [protocol EXCEPT
                       !.encrypted = EncryptTask(protocol.padded_line,
                                                 public_exp, public_mod),
                       !.pc = "encrypted"]
    /\ Others_protocol

\* Lines 337-344 of large_decrypt, called with the pair: both threads start.
DecryptStart ==
    /\ protocol.pc = "encrypted"
    /\ protocol' = [protocol EXCEPT !.first_thread = "running",
                                    !.second_thread = "running",
                                    !.pc = "join"]
    /\ Others_protocol

\* Lines 340-341, on first_thread.
DecryptFirst ==
    /\ protocol.first_thread = "running"
    /\ protocol' = [protocol EXCEPT
                       !.first_decrypted = DecryptThread(protocol.encrypted[1],
                                                         priv_exp, public_mod),
                       !.first_thread = "finished"]
    /\ Others_protocol

\* Lines 343-344, on second_thread.
DecryptSecond ==
    /\ protocol.second_thread = "running"
    /\ protocol' = [protocol EXCEPT
                       !.second_decrypted = DecryptThread(protocol.encrypted[2],
                                                          priv_exp, public_mod),
                       !.second_thread = "finished"]
    /\ Others_protocol

\* Lines 346-363: both threads are joined, then the decoding thread runs and is
\* joined, and decrypted_str is returned.
DecodeLine ==
    /\ protocol.pc = "join"
    /\ protocol.first_thread = "finished"
    /\ protocol.second_thread = "finished"
    /\ protocol' = [protocol EXCEPT
                       !.decrypted_str = DecodeThread(protocol.first_decrypted,
                                                      protocol.second_decrypted),
                       !.pc = "decrypted"]
    /\ Others_protocol

NextLine ==
    \/ FrameLine
    \/ FrameThrows
    \/ EncryptLine
    \/ DecryptStart
    \/ DecryptFirst
    \/ DecryptSecond
    \/ DecodeLine

SpecLine == InitLine /\ [][NextLine]_vars

(***************************************************************************)
(* C1: round trip.  For every line of printable ASCII of length <= 96 and  *)
(* every line number, large_decrypt of the pair that large_encrypt made    *)
(* for the line returns exactly the line.                                  *)
(***************************************************************************)
RoundTrip ==
    (/\ protocol.pc = "decrypted"
     /\ Len(protocol.line) <= MAX_CHARS_PER_CHUNK) =>
        protocol.decrypted_str = protocol.line

\* What the code does return: with a line number below 1000, the line cut to
\* MAX_CHARS_PER_CHUNK characters and without its trailing spaces; with a
\* larger one, the last digit of the number, the line, and its first digit.
RoundTripAsCoded ==
    protocol.pc = "decrypted" =>
        LET text == DecimalText(protocol.line_num)
            cut == Truncate(protocol.line)
        IN  IF Len(text) <= 3
            THEN /\ Len(protocol.decrypted_str) <= Len(cut)
                 /\ \A p \in 1..Len(cut) :
                        IF p <= Len(protocol.decrypted_str)
                        THEN protocol.decrypted_str[p] = cut[p]
                        ELSE cut[p] = 32
                 /\ Len(protocol.decrypted_str) > 0 =>
                        protocol.decrypted_str[Len(protocol.decrypted_str)] # 32
            ELSE /\ protocol.decrypted_str[1] = text[4]
                 /\ protocol.decrypted_str[Len(protocol.decrypted_str)] = text[1]

\* The decimal text of n, filled with zeros on the left up to 3 characters.
ZeroPadded3(n) ==
    LET text == DecimalText(n)
    IN  [p \in 1..(3 - Len(text)) |-> 48] \o text

MaxInputLen == 3

\* 'A' and the newline.
InputAlphabet == {65, 10}

Inputs == UNION {StringsOver(InputAlphabet, len) : len \in 0..MaxInputLen}

\* std::getline on a stream over text whose next character is at pos: it
\* fails when no character is left; otherwise the line runs up to the next
\* newline or the end of the text, and the newline is taken off the stream.
getline_fails(text, pos) == pos > Len(text)

NewlineFrom(text, pos) ==
    CHOOSE k \in pos..(Len(text) + 1) :
        /\ k = Len(text) + 1 \/ text[k] = 10
        /\ \A j \in pos..(k - 1) : text[j] # 10

getline_line(text, pos) == SubSeq(text, pos, NewlineFrom(text, pos) - 1)

getline_rest(text, pos) ==
    IF NewlineFrom(text, pos) > Len(text) THEN Len(text) + 1
    ELSE NewlineFrom(text, pos) + 1

InitProgram ==
    /\ program \in
          {[entry |-> "main", pc |-> "main_getline", cin |-> t, cin_pos |-> 1,
            to_encrypt |-> << >>, text |-> << >>, pos |-> 1, line_num |-> 1,
            encrypt_parallel |-> << >>, finished |-> << >>,
            encrypted_lines |-> << >>,
            outcome |-> "none", cout |-> << >>] : t \in Inputs}
          \cup
          {[entry |-> "large_encrypt", pc |-> "getline", cin |-> << >>, cin_pos |-> 1,
            to_encrypt |-> << >>, text |-> t, pos |-> 1, line_num |-> 1,
            encrypt_parallel |-> << >>, finished |-> << >>,
            encrypted_lines |-> << >>,
            outcome |-> "none", cout |-> << >>] : t \in Inputs}
    /\ arith = Unused
    /\ division = Unused
    /\ modexp = Unused
    /\ protocol = Unused

Others_program == UNCHANGED <<arith, division, modexp, protocol>>

\* main.cpp lines 37-40: one more line of std::cin is added to to_encrypt, with
\* a newline after it.
MainGetLine ==
    /\ program.pc = "main_getline"
    /\ ~getline_fails(program.cin, program.cin_pos)
    /\ program' = [program EXCEPT
                      !.to_encrypt = program.to_encrypt
                                     \o getline_line(program.cin, program.cin_pos)
                                     \o <<10>>,
                      !.cin_pos = getline_rest(program.cin, program.cin_pos)]
    /\ Others_program

\* main.cpp lines 42-46: nothing was read; the error is printed and main
\* returns without calling large_encrypt.
MainNoText ==
    /\ program.pc = "main_getline"
    /\ getline_fails(program.cin, program.cin_pos)
    /\ program.to_encrypt = << >>
    /\ program' = [program EXCEPT !.outcome = "Error: No text to encrypt",
                                  !.pc = "exit"]
    /\ Others_program

\* main.cpp line 49 and bignum.cpp lines 302-307: large_encrypt is entered.
MainCallLargeEncrypt ==
    /\ program.pc = "main_getline"
    /\ getline_fails(program.cin, program.cin_pos)
    /\ program.to_encrypt # << >>
    /\ program' = [program EXCEPT !.text = program.to_encrypt,
                                  !.pos = 1,
                                  !.line_num = 1,
                                  !.pc = "getline"]
    /\ Others_program

\* Lines 309-322: one iteration of the while loop.  The line is cut and
\* framed, its task is launched, line_num is incremented.
LaunchLine ==
    /\ program.pc = "getline"
    /\ ~getline_fails(program.text, program.pos)
    /\ LET line == Truncate(getline_line(program.text, program.pos))
       IN  IF padding_throws(line, program.line_num)
           THEN program' = [program EXCEPT !.outcome = "std::length_error",
                                           !.pc = "thrown"]
           ELSE program' = [program EXCEPT
                               !.encrypt_parallel =
                                   Append(program.encrypt_parallel,
                                          [padded_line |-> padding(line, program.line_num),
                                           state |-> "running",
                                           pair |-> << >>]),
                               !.line_num = program.line_num + 1,
                               !.pos = getline_rest(program.text, program.pos)]
    /\ Others_program

\* Line 309: getline fails, the while loop ends.
EndOfText ==
    /\ program.pc = "getline"
    /\ getline_fails(program.text, program.pos)
    /\ program' = [program EXCEPT !.pc = "collect"]
    /\ Others_program

\* Lines 316-320, on the thread of task i: the task computes its pair.
RunTask ==
    /\ \E i \in 1..Len(program.encrypt_parallel) :
           /\ program.encrypt_parallel[i].state = "running"
           /\ program' = [program EXCEPT
                             !.encrypt_parallel[i].pair =
                                 EncryptTask(program.encrypt_parallel[i].padded_line,
                                             public_exp, public_mod),
                             !.encrypt_parallel[i].state = "finished",
                             !.finished = Append(program.finished, i)]
    /\ Others_program

\* NextFuture walking encrypt_parallel from its back.
NextFutureFromBack(encrypt_parallel, encrypted_lines) ==
    Len(encrypt_parallel) - Len(encrypted_lines)

\* Line 325: the range-for walks encrypt_parallel from its front, one future
\* for every pair pushed so far.
NextFuture(encrypt_parallel, encrypted_lines) == Len(encrypted_lines) + 1

\* Lines 325-326: encryption.get() of the next future returns once its task
\* has finished, and the pair is pushed.
Collect ==
    /\ program.pc = "collect"
    /\ Len(program.encrypted_lines) < Len(program.encrypt_parallel)
    /\ LET next == NextFuture(program.encrypt_parallel, program.encrypted_lines)
       IN  /\ program.encrypt_parallel[next].state = "finished"
           /\ program' = [program EXCEPT
                             !.encrypted_lines =
                                 Append(program.encrypted_lines,
                                        program.encrypt_parallel[next].pair)]
    /\ Others_program

\* Line 328: encrypted_lines is returned, to main or to the other caller.
ReturnPairs ==
    /\ program.pc = "collect"
    /\ Len(program.encrypted_lines) = Len(program.encrypt_parallel)
    /\ program' = [program EXCEPT
                      !.outcome = "pairs",
                      !.pc = IF program.entry = "main" THEN "print" ELSE "returned"]
    /\ Others_program

\* main.cpp lines 50-55: both strings of every pair are printed, each on a
\* line of its own.
MainPrint ==
    /\ program.pc = "print"
    /\ program' = [program EXCEPT
                      !.cout = [k \in 1..(2 * Len(program.encrypted_lines)) |->
                                   program.encrypted_lines[(k + 1) \div 2]
                                                          [2 - (k % 2)]],
                      !.pc = "exit"]
    /\ Others_program

NextProgram ==
    \/ MainGetLine
    \/ MainNoText
    \/ MainCallLargeEncrypt
    \/ LaunchLine
    \/ EndOfText
    \/ RunTask
    \/ Collect
    \/ ReturnPairs
    \/ MainPrint

SpecProgram == InitProgram /\ [][NextProgram]_vars

(***************************************************************************)
(* C8: an empty input text given to encrypt (large_encrypt) yields an      *)
(* empty-input failure, not a successful result holding zero pairs.        *)
(***************************************************************************)
EmptyInputFails ==
    (/\ program.pc \in {"exit", "returned"}
     /\ (IF program.entry = "main" THEN program.cin ELSE program.text) = << >>) =>
        /\ program.outcome # "pairs"
        /\ program.outcome = "Error: No text to encrypt"

\* The check of main: with nothing on std::cin, main prints the error and
\* large_encrypt is not called.
MainEmptyInputFails ==
    (/\ program.entry = "main"
     /\ program.pc = "exit"
     /\ program.cin = << >>) =>
        /\ program.outcome = "Error: No text to encrypt"
        /\ program.encrypt_parallel = << >>

\* Every text main hands to large_encrypt has a line in it.
MainNeverPassesEmptyText ==
    (program.entry = "main" /\ program.pc \notin {"main_getline", "exit"}) =>
        program.text # << >>

\* The lines of a text as std::getline cuts it: one for every newline, and
\* one more for what follows the last newline when that is not empty.
NewlinesOf(text) == {p \in 1..Len(text) : text[p] = 10}

LineCount(text) ==
    Cardinality(NewlinesOf(text))
    + (IF Len(text) > 0 /\ text[Len(text)] # 10 THEN 1 ELSE 0)

\* The position of the k-th newline of the text; 0 for k = 0 and one past the
\* end of the text when it has fewer.
NewlineNumber(text, k) ==
    IF k = 0 THEN 0
    ELSE IF k > Cardinality(NewlinesOf(text)) THEN Len(text) + 1
    ELSE CHOOSE p \in NewlinesOf(text) :
             Cardinality({q \in NewlinesOf(text) : q <= p}) = k

LineAt(text, i) ==
    SubSeq(text, NewlineNumber(text, i - 1) + 1, NewlineNumber(text, i) - 1)

MaxBase == 4
MaxExponent == 11
MaxModulus == 7

\* Bases below the modulus and, as large_encrypt passes them, encoded
\* characters: 'A' is 0,6,5 and 'd' is 1,0,0.
Bases == {Numeral(n) : n \in 0..MaxBase} \cup {string_to_bignum(<<ch>>) : ch \in {65, 100}}
Exponents == {Numeral(n) : n \in 0..MaxExponent}
Moduli == {Numeral(n) : n \in 1..MaxModulus}

InitModExp ==
    /\ modexp \in {[pc |-> "enter", base |-> b, exponent |-> e, modulus |-> m] :
                      b \in Bases, e \in Exponents, m \in Moduli}
    /\ arith = Unused
    /\ division = Unused
    /\ protocol = Unused
    /\ program = Unused

Others_modexp == UNCHANGED <<arith, division, protocol, program>>

\* Lines 192-200: the locals of mod_exponent.
ModExpEnter ==
    /\ modexp.pc = "enter"
    /\ modexp' = [pc |-> "while",
                  base |-> modexp.base,
                  exponent |-> modexp.exponent,
                  modulus |-> modexp.modulus,
                  mod_exp |-> <<1>>,
                  curr_base |-> Modulo(modexp.base, modexp.modulus),
                  curr_exponent |-> modexp.exponent,
                  multiply |-> "idle",
                  curr_mod_exp |-> << >>,
                  square |-> "idle",
                  square_mod |-> << >>,
                  result |-> << >>]
    /\ Others_modexp

\* Lines 202-213, exponent odd: the multiply task is launched.
LaunchMultiply ==
    /\ modexp.pc = "while"
    /\ ~Equal(modexp.curr_exponent, zero)
    /\ IsOdd(modexp.curr_exponent)
    /\ modexp' = [modexp EXCEPT !.multiply = "running", !.pc = "launch_square"]
    /\ Others_modexp

\* Lines 202-206, exponent even: no multiply task in this iteration.
SkipMultiply ==
    /\ modexp.pc = "while"
    /\ ~Equal(modexp.curr_exponent, zero)
    /\ ~IsOdd(modexp.curr_exponent)
    /\ modexp' = [modexp EXCEPT !.pc = "launch_square"]
    /\ Others_modexp

\* Lines 215-216: the squaring task is launched.
LaunchSquare ==
    /\ modexp.pc = "launch_square"
    /\ modexp' = [modexp EXCEPT !.square = "running", !.pc = "wait_multiply"]
    /\ Others_modexp

\* MultiplyJoined with the wait left out.
MultiplyNotAwaited(m) == TRUE

\* Lines 218-219: mod.wait() returns for every task in mod_parallel, that is
\* when no multiply task was launched or when it has finished.
MultiplyJoined(m) == m.multiply \in {"idle", "finished"}

WaitMultiply ==
    /\ modexp.pc = "wait_multiply"
    /\ MultiplyJoined(modexp)
    /\ modexp' = [modexp EXCEPT !.pc = "get_square"]
    /\ Others_modexp

\* Line 221: square_mod_future.get() returns once the task has finished; its
\* value is assigned to curr_base.
GetSquare ==
    /\ modexp.pc = "get_square"
    /\ modexp.square = "finished"
    /\ modexp' = [modexp EXCEPT !.curr_base = modexp.square_mod, !.pc = "halve"]
    /\ Others_modexp

\* Halve with the division by two replaced by a division by one.
HalveByOne(curr_exponent) == Divide(curr_exponent, <<1>>)

\* Line 222 and the end of the loop body, where the iteration's futures are
\* destroyed.
NextExponent(curr_exponent) == Halve(curr_exponent)

HalveExponent ==
    /\ modexp.pc = "halve"
    /\ modexp' = [modexp EXCEPT !.curr_exponent = NextExponent(modexp.curr_exponent),
                                !.multiply = "idle",
                                !.square = "idle",
                                !.pc = "while"]
    /\ Others_modexp

\* Lines 202, 225-226: the exponent is zero; mod_exp is returned.
ModExpReturn ==
    /\ modexp.pc = "while"
    /\ Equal(modexp.curr_exponent, zero)
    /\ modexp' = [modexp EXCEPT !.result = remove_excess(modexp.mod_exp),
                                !.pc = "returned"]
    /\ Others_modexp

\* Line 210, on the multiply task's thread: it reads mod_exp and curr_base.
MultiplyCompute ==
    /\ modexp.pc \notin {"enter", "returned"}
    /\ modexp.multiply = "running"
    /\ modexp' = [modexp EXCEPT
                      !.curr_mod_exp = MultiplyTask(modexp.mod_exp, modexp.curr_base,
                                                    modexp.modulus),
                      !.multiply = "computed"]
    /\ Others_modexp

\* Lines 211-212, on the multiply task's thread: mod_exp is written under
\* mod_exp_mutex, which no other thread takes.
MultiplyStore ==
    /\ modexp.pc \notin {"enter", "returned"}
    /\ modexp.multiply = "computed"
    /\ modexp' = [modexp EXCEPT !.mod_exp = modexp.curr_mod_exp,
                                !.multiply = "finished"]
    /\ Others_modexp

\* Line 216, on the squaring task's thread: it reads curr_base.
SquareCompute ==
    /\ modexp.pc \notin {"enter", "returned"}
    /\ modexp.square = "running"
    /\ modexp' = [modexp EXCEPT
                      !.square_mod = SquareTask(modexp.curr_base, modexp.modulus),
                      !.square = "finished"]
    /\ Others_modexp

CallerThread ==
    \/ ModExpEnter
    \/ LaunchMultiply
    \/ SkipMultiply
    \/ LaunchSquare
    \/ WaitMultiply
    \/ GetSquare
    \/ HalveExponent
    \/ ModExpReturn

MultiplyThread == MultiplyCompute \/ MultiplyStore

SquareThread == SquareCompute

NextModExp == CallerThread \/ MultiplyThread \/ SquareThread

SpecModExp == InitModExp /\ [][NextModExp]_vars

\* Every thread that can take a step eventually takes one.
FairSpecModExp ==
    /\ SpecModExp
    /\ WF_vars(CallerThread)
    /\ WF_vars(MultiplyThread)
    /\ WF_vars(SquareThread)

RECURSIVE BruteForce(_, _, _)
\* base^exp mod m by exp multiplications, reduced after each one so that the
\* product stays within TLC's integers.
BruteForce(base, exp, m) ==
    IF exp = 0 THEN 1 % m
    ELSE (BruteForce(base, exp - 1, m) * base) % m

(***************************************************************************)
(* C2: mod_exponent(base, exp, mod) is the digit sequence of               *)
(* (base^exp) mod mod, for every base >= 0, exp >= 0 and mod >= 1.         *)
(***************************************************************************)
ModExponentIsBruteForce ==
    modexp.pc = "returned" =>
        modexp.result = Numeral(BruteForce(Value(modexp.base), Value(modexp.exponent),
                                           Value(modexp.modulus)))

\* The same with the one failing case set aside: exp = 0 with mod = 1.
ModExponentIsBruteForceElsewhere ==
    (/\ modexp.pc = "returned"
     /\ ~(modexp.exponent = zero /\ modexp.modulus = <<1>>)) =>
        modexp.result = Numeral(BruteForce(Value(modexp.base), Value(modexp.exponent),
                                           Value(modexp.modulus)))

(***************************************************************************)
(* C9: a barrier each round.  The caller passes the wait only when the     *)
(* multiply task has finished and takes the square only when the squaring  *)
(* task has; curr_base and curr_exponent change only after that, so a      *)
(* multiply task that has computed has read the base and the accumulator   *)
(* of its own iteration; and the value returned is that of the sequential  *)
(* square-and-multiply, in every interleaving.                             *)
(***************************************************************************)
BarrierEachRound ==
    /\ modexp.pc \in {"get_square", "halve"} =>
           modexp.multiply \in {"idle", "finished"}
    /\ modexp.pc = "halve" => modexp.square = "finished"
    /\ modexp.pc \in {"while", "returned"} =>
           modexp.multiply = "idle" /\ modexp.square = "idle"
    /\ (modexp.pc \notin {"enter"} /\ modexp.multiply = "computed") =>
           modexp.curr_mod_exp = MultiplyTask(modexp.mod_exp, modexp.curr_base,
                                              modexp.modulus)
    /\ modexp.pc = "returned" =>
           modexp.result = mod_exponent(modexp.base, modexp.exponent, modexp.modulus)

\* The squaring task has finished with a new base while the multiply task of
\* the same iteration has not read the base yet, and the caller waits.
BarrierWitness ==
    /\ modexp.pc = "wait_multiply"
    /\ modexp.multiply = "running"
    /\ modexp.square = "finished"
    /\ modexp.square_mod # modexp.curr_base
    /\ modexp.exponent = <<1, 1>>

\* A step of the caller at line 222 leaves a smaller exponent.
ExponentDecreases ==
    modexp.pc = "halve" => Value(modexp'.curr_exponent) < Value(modexp.curr_exponent)

(***************************************************************************)
(* C10: mod_exponent returns for every base, exponent >= 0 and modulus     *)
(* >= 1, because the halving makes the exponent strictly smaller in every  *)
(* iteration.                                                              *)
(***************************************************************************)
ModExpTerminates ==
    /\ <>(modexp.pc = "returned")
    /\ [][ExponentDecreases]_vars

\* Returned after the four iterations of exponent 11.
ModExpTerminatesWitness ==
    /\ modexp.pc = "returned"
    /\ modexp.exponent = <<1, 1>>
    /\ modexp.curr_exponent = zero
    /\ modexp.base = <<3>>
    /\ modexp.modulus = <<7>>
    /\ modexp.result = <<5>>

====
